---- MODULE Spec2Model ----
(***************************************************************************)
(* Gesture-Control: the pose normalisation and rule-matching engine        *)
(* (gesture_detection.py), the configuration store (config_manager.py)     *)
(* and the video thread / reload handlers of the two front ends            *)
(* (pyqt_gui.py and main.py + gui/video_thread.py).                        *)
(*                                                                         *)
(* Numbers.  A Python float is modelled as a fixed-point number: the       *)
(* integer v stands for v / Unit.  Sqrt, Div and Mul round down to that    *)
(* resolution; the poses and thresholds that decide a boundary case are    *)
(* chosen on a grid where the values involved are exact.  Angles of        *)
(* conditions are whole degrees (rounded down), not scaled by Unit.        *)
(***************************************************************************)
EXTENDS Integers, Sequences, FiniteSets, TLC

VARIABLES evalLandmarks, call, frontend, file, heap, dicts, config,
          gesture_detector, thread_gesture_detector, thread, reload, returned, edits,
          command_executor, now, executed, execution,
          video_thread, events, window, dispatched

\* the application: configuration store, detectors, video thread, handlers
AppVars ==
    <<frontend, file, heap, dicts, config, gesture_detector,
      thread_gesture_detector, thread, reload, returned, edits>>

\* the command executor, the clock it reads and the record of its calls
ExecVars ==
    <<command_executor, now, executed, execution>>

\* main.py's video thread, the queue of its signals and the window's slots
DispatchVars ==
    <<video_thread, events, window, dispatched>>

\* no executor is built and no clock runs
ExecOff ==
    /\ command_executor = [mappings |-> <<>>, last_execution |-> <<>>]
    /\ now = 0
    /\ executed = {}
    /\ execution = [op |-> "none"]

\* no video thread is started and no window is shown
DispatchOff ==
    /\ video_thread = [pc |-> "off"]
    /\ events = <<>>
    /\ window = [shown |-> FALSE]
    /\ dispatched = [op |-> "none"]

\* ------------------------------------------------------------------------
\* Numbers
\* ------------------------------------------------------------------------

\* Resolution of the fixed-point model of a float: 1.0 is Unit.
Unit == 100

\* math.sqrt
Sqrt(n) == CHOOSE r \in 0..n : r * r <= n /\ n < (r + 1) * (r + 1)

\* a / b for fixed-point a, b (b > 0)
Div(a, b) == (a * Unit) \div b

\* a * b for fixed-point a, b
Mul(a, b) == (a * b) \div Unit

\* dict.get(key, default)
Get(d, key, default) == IF key \in DOMAIN d THEN d[key] ELSE default

\* Python list indexing: lst[i] is defined for -len <= i < len (a negative
\* index counts from the end) and raises IndexError otherwise.
InRange(lst, i) == -Len(lst) <= i /\ i < Len(lst)
Item(lst, i) == IF i >= 0 THEN lst[i + 1] ELSE lst[Len(lst) + i + 1]

\* ------------------------------------------------------------------------
\* GestureDetector: landmark indices
\* ------------------------------------------------------------------------
WRIST == 0
THUMB_TIP == 4
INDEX_TIP == 8
MIDDLE_FINGER_BASE == 9
MIDDLE_FINGER_TIP == 12
\* len(landmarks) < 21
NumLandmarks == 21

None == "None"

\* ------------------------------------------------------------------------
\* Geometry kernel
\* ------------------------------------------------------------------------
_euclidean_distance(point1, point2) ==
    LET dx == point1.x - point2.x
        dy == point1.y - point2.y
        dz == point1.z - point2.z
    IN  Sqrt(dx * dx + dy * dy + dz * dz)

\* An angle in radians is carried as its (cos, sin) pair, which is all that
\* _rotate_points reads of it: atan2(dy, dx) is the direction of (dx, dy),
\* and atan2(0, 0) = 0.
Atan2(dy, dx) ==
    IF dx = 0 /\ dy = 0
    THEN [cos |-> Unit, sin |-> 0]
    ELSE LET r == Sqrt(dx * dx + dy * dy)
         IN  [cos |-> Div(dx, r), sin |-> Div(dy, r)]

\* -angle
NegAngle(angle) == [cos |-> angle.cos, sin |-> 0 - angle.sin]

_calculate_angle(point1, point2) ==
    LET dx == point2.x - point1.x
        dy == point2.y - point1.y
    IN  Atan2(dy, dx)

\* 10000 * cos(k degrees) for k = 0..180, to the nearest integer
CosTable ==
    <<
      10000, 9998, 9994, 9986, 9976, 9962, 9945, 9925, 9903, 9877, 9848, 9816,
      9781, 9744, 9703, 9659, 9613, 9563, 9511, 9455, 9397, 9336, 9272, 9205,
      9135, 9063, 8988, 8910, 8829, 8746, 8660, 8572, 8480, 8387, 8290, 8192,
      8090, 7986, 7880, 7771, 7660, 7547, 7431, 7314, 7193, 7071, 6947, 6820,
      6691, 6561, 6428, 6293, 6157, 6018, 5878, 5736, 5592, 5446, 5299, 5150,
      5000, 4848, 4695, 4540, 4384, 4226, 4067, 3907, 3746, 3584, 3420, 3256,
      3090, 2924, 2756, 2588, 2419, 2250, 2079, 1908, 1736, 1564, 1392, 1219,
      1045, 872, 698, 523, 349, 175, 0, -175, -349, -523, -698, -872,
      -1045, -1219, -1392, -1564, -1736, -1908, -2079, -2250, -2419, -2588, -2756, -2924,
      -3090, -3256, -3420, -3584, -3746, -3907, -4067, -4226, -4384, -4540, -4695, -4848,
      -5000, -5150, -5299, -5446, -5592, -5736, -5878, -6018, -6157, -6293, -6428, -6561,
      -6691, -6820, -6947, -7071, -7193, -7314, -7431, -7547, -7660, -7771, -7880, -7986,
      -8090, -8192, -8290, -8387, -8480, -8572, -8660, -8746, -8829, -8910, -8988, -9063,
      -9135, -9205, -9272, -9336, -9397, -9455, -9511, -9563, -9613, -9659, -9703, -9744,
      -9781, -9816, -9848, -9877, -9903, -9925, -9945, -9962, -9976, -9986, -9994, -9998,
      -10000
    >>

\* math.degrees(math.acos(c)) in whole degrees: the largest k in 0..180 with
\* cos(k degrees) >= c, for a fixed-point cosine c in -Unit..Unit.
AcosDeg(c) ==
    CHOOSE k \in 0..180 :
        /\ CosTable[k + 1] * Unit >= c * 10000
        /\ k < 180 => CosTable[k + 2] * Unit < c * 10000

Max2(a, b) == IF a >= b THEN a ELSE b
Min2(a, b) == IF a <= b THEN a ELSE b

\* the angle at point2 with a right angle reported for an arm of length 0
_calculate_angle_three_points_degenerate_90(point1, point2, point3) ==
    LET v1x == point1.x - point2.x
        v1y == point1.y - point2.y
        v2x == point3.x - point2.x
        v2y == point3.y - point2.y
        dot_product == v1x * v2x + v1y * v2y
        mag1 == Sqrt(v1x * v1x + v1y * v1y)
        mag2 == Sqrt(v2x * v2x + v2y * v2y)
    IN  IF mag1 = 0 \/ mag2 = 0
        THEN 90
        ELSE LET cos_angle == Div(dot_product, mag1 * mag2)
                 clamped == Max2(0 - Unit, Min2(Unit, cos_angle))
             IN  AcosDeg(clamped)

_calculate_angle_three_points(point1, point2, point3) ==
    LET v1x == point1.x - point2.x
        v1y == point1.y - point2.y
        v2x == point3.x - point2.x
        v2y == point3.y - point2.y
        dot_product == v1x * v2x + v1y * v2y
        mag1 == Sqrt(v1x * v1x + v1y * v1y)
        mag2 == Sqrt(v2x * v2x + v2y * v2y)
    IN  IF mag1 = 0 \/ mag2 = 0
        THEN 0
        ELSE LET cos_angle == Div(dot_product, mag1 * mag2)
                 clamped == Max2(0 - Unit, Min2(Unit, cos_angle))
             IN  AcosDeg(clamped)

_rotate_points(landmarks, angle) ==
    LET cos_a == angle.cos
        sin_a == angle.sin
    IN  [i \in 1..Len(landmarks) |->
            [x |-> Mul(landmarks[i].x, cos_a) - Mul(landmarks[i].y, sin_a),
             y |-> Mul(landmarks[i].x, sin_a) + Mul(landmarks[i].y, cos_a),
             z |-> landmarks[i].z]]

\* ------------------------------------------------------------------------
\* Normalizer
\* ------------------------------------------------------------------------
\* centering on the middle finger base instead of the wrist
Centered_on_middle_finger_base(landmarks) ==
    LET wrist == landmarks[MIDDLE_FINGER_BASE + 1]
    IN  [i \in 1..Len(landmarks) |->
            [x |-> landmarks[i].x - wrist.x,
             y |-> landmarks[i].y - wrist.y,
             z |-> landmarks[i].z - wrist.z]]

\* the centering step mirroring every landmark at the wrist
Centered_mirrored(landmarks) ==
    LET wrist == landmarks[WRIST + 1]
    IN  [i \in 1..Len(landmarks) |->
            [x |-> wrist.x - landmarks[i].x,
             y |-> wrist.y - landmarks[i].y,
             z |-> wrist.z - landmarks[i].z]]

Centered(landmarks) ==
    LET wrist == landmarks[WRIST + 1]
    IN  [i \in 1..Len(landmarks) |->
            [x |-> landmarks[i].x - wrist.x,
             y |-> landmarks[i].y - wrist.y,
             z |-> landmarks[i].z - wrist.z]]

\* the scaling step collapsing a hand of size 0 onto the origin
Scaled_collapsing(normalized) ==
    IF Len(normalized) > MIDDLE_FINGER_BASE
    THEN LET scale_factor == _euclidean_distance(normalized[WRIST + 1],
                                                 normalized[MIDDLE_FINGER_BASE + 1])
         IN  IF scale_factor > 0
             THEN [i \in 1..Len(normalized) |->
                     [x |-> Div(normalized[i].x, scale_factor),
                      y |-> Div(normalized[i].y, scale_factor),
                      z |-> Div(normalized[i].z, scale_factor)]]
             ELSE [i \in 1..Len(normalized) |-> [x |-> 0, y |-> 0, z |-> 0]]
    ELSE normalized

\* the scaling step left out
Scaled_skipped(normalized) ==
    normalized

Scaled(normalized) ==
    IF Len(normalized) > MIDDLE_FINGER_BASE
    THEN LET scale_factor == _euclidean_distance(normalized[WRIST + 1],
                                                 normalized[MIDDLE_FINGER_BASE + 1])
         IN  IF scale_factor > 0
             THEN [i \in 1..Len(normalized) |->
                     [x |-> Div(normalized[i].x, scale_factor),
                      y |-> Div(normalized[i].y, scale_factor),
                      z |-> Div(normalized[i].z, scale_factor)]]
             ELSE normalized
    ELSE normalized

Rotated(normalized) ==
    IF Len(normalized) > INDEX_TIP
    THEN LET angle == _calculate_angle(normalized[WRIST + 1],
                                       normalized[INDEX_TIP + 1])
         IN  _rotate_points(normalized, NegAngle(angle))
    ELSE normalized

\* the three steps, the rotation taking the raw pose instead of the output
\* of the steps before it
Transformed_rotating_raw(transformations, landmarks) ==
         LET n1 == IF Get(transformations, "displacement_invariant", FALSE)
                   THEN Centered(landmarks) ELSE landmarks
             n2 == IF Get(transformations, "scale_invariant", FALSE)
                   THEN Scaled(n1) ELSE n1
             n3 == IF Get(transformations, "rotation_invariant", FALSE)
                   THEN Rotated(landmarks) ELSE n2
         IN  n3

\* the three steps, each on the output of the previous enabled one
Transformed(transformations, landmarks) ==
         LET n1 == IF Get(transformations, "displacement_invariant", FALSE)
                   THEN Centered(landmarks) ELSE landmarks
             n2 == IF Get(transformations, "scale_invariant", FALSE)
                   THEN Scaled(n1) ELSE n1
             n3 == IF Get(transformations, "rotation_invariant", FALSE)
                   THEN Rotated(n2) ELSE n2
         IN  n3

\* normalize_keypoints without the length test: only an empty pose is passed through
normalize_keypoints_any_length(transformations, landmarks) ==
    IF Len(landmarks) = 0
    THEN landmarks
    ELSE Transformed(transformations, landmarks)

normalize_keypoints(transformations, landmarks) ==
    IF Len(landmarks) = 0 \/ Len(landmarks) < NumLandmarks
    THEN landmarks
    ELSE Transformed(transformations, landmarks)

\* ------------------------------------------------------------------------
\* Condition evaluator.  A call either returns a boolean or raises
\* (IndexError from a list subscript): [raised, value].
\* ------------------------------------------------------------------------
Ret(v) == [raised |-> FALSE, value |-> v]
Raise == [raised |-> TRUE, value |-> FALSE]

\* _check_distance_condition taking a missing bound for a failed one
_check_distance_condition_bounds_required(landmarks, condition) ==
    LET points == Get(condition, "points", <<>>)
    IN  IF Len(points) # 2 THEN Ret(FALSE)
        ELSE IF points[1] >= Len(landmarks) \/ points[2] >= Len(landmarks)
        THEN Ret(FALSE)
        ELSE IF ~InRange(landmarks, points[1]) \/ ~InRange(landmarks, points[2])
        THEN Raise
        ELSE LET distance == _euclidean_distance(Item(landmarks, points[1]),
                                                 Item(landmarks, points[2]))
                 above == IF "min" \in DOMAIN condition
                          THEN condition.min < distance ELSE FALSE
                 below == IF "max" \in DOMAIN condition
                          THEN distance < condition.max ELSE FALSE
             IN  Ret(above /\ below)

_check_distance_condition(landmarks, condition) ==
    LET points == Get(condition, "points", <<>>)
    IN  IF Len(points) # 2 THEN Ret(FALSE)
        ELSE IF points[1] >= Len(landmarks) \/ points[2] >= Len(landmarks)
        THEN Ret(FALSE)
        ELSE IF ~InRange(landmarks, points[1]) \/ ~InRange(landmarks, points[2])
        THEN Raise
        ELSE LET distance == _euclidean_distance(Item(landmarks, points[1]),
                                                 Item(landmarks, points[2]))
                 \* min_dist defaults to -inf, max_dist to +inf
                 above == IF "min" \in DOMAIN condition
                          THEN condition.min < distance ELSE TRUE
                 below == IF "max" \in DOMAIN condition
                          THEN distance < condition.max ELSE TRUE
             IN  Ret(above /\ below)

_check_angle_condition(landmarks, condition) ==
    LET points == Get(condition, "points", <<>>)
    IN  IF Len(points) # 3 THEN Ret(FALSE)
        ELSE IF \E k \in 1..3 : points[k] >= Len(landmarks)
        THEN Ret(FALSE)
        ELSE IF \E k \in 1..3 : ~InRange(landmarks, points[k])
        THEN Raise
        ELSE LET angle == _calculate_angle_three_points(
                              Item(landmarks, points[1]),
                              Item(landmarks, points[2]),
                              Item(landmarks, points[3]))
                 above == IF "min" \in DOMAIN condition
                          THEN condition.min < angle ELSE TRUE
                 below == IF "max" \in DOMAIN condition
                          THEN angle < condition.max ELSE TRUE
             IN  Ret(above /\ below)

\* _check_position_condition with the bounds themselves excluded
_check_position_condition_strict(landmarks, condition) ==
    LET point_idx == Get(condition, "point", 0)
    IN  IF point_idx >= Len(landmarks) THEN Ret(FALSE)
        ELSE IF ~InRange(landmarks, point_idx) THEN Raise
        ELSE LET point == Item(landmarks, point_idx)
             IN  IF "x_min" \in DOMAIN condition /\ point.x <= condition.x_min
                 THEN Ret(FALSE)
                 ELSE IF "x_max" \in DOMAIN condition /\ point.x >= condition.x_max
                 THEN Ret(FALSE)
                 ELSE IF "y_min" \in DOMAIN condition /\ point.y <= condition.y_min
                 THEN Ret(FALSE)
                 ELSE IF "y_max" \in DOMAIN condition /\ point.y >= condition.y_max
                 THEN Ret(FALSE)
                 ELSE Ret(TRUE)

_check_position_condition(landmarks, condition) ==
    LET point_idx == Get(condition, "point", 0)
    IN  IF point_idx >= Len(landmarks) THEN Ret(FALSE)
        ELSE IF ~InRange(landmarks, point_idx) THEN Raise
        ELSE LET point == Item(landmarks, point_idx)
             IN  IF "x_min" \in DOMAIN condition /\ point.x < condition.x_min
                 THEN Ret(FALSE)
                 ELSE IF "x_max" \in DOMAIN condition /\ point.x > condition.x_max
                 THEN Ret(FALSE)
                 ELSE IF "y_min" \in DOMAIN condition /\ point.y < condition.y_min
                 THEN Ret(FALSE)
                 ELSE IF "y_max" \in DOMAIN condition /\ point.y > condition.y_max
                 THEN Ret(FALSE)
                 ELSE Ret(TRUE)

_evaluate_condition(landmarks, condition) ==
    LET condition_type == Get(condition, "type", None)
    IN  IF condition_type = "distance"
        THEN _check_distance_condition(landmarks, condition)
        ELSE IF condition_type = "angle"
        THEN _check_angle_condition(landmarks, condition)
        ELSE IF condition_type = "position"
        THEN _check_position_condition(landmarks, condition)
        ELSE Ret(FALSE)

\* ------------------------------------------------------------------------
\* Gesture matcher
\* ------------------------------------------------------------------------
RECURSIVE CheckFrom(_, _, _)
\* the loop of _check_gesture_conditions from the k-th condition on
CheckFrom(landmarks, conditions, k) ==
    IF k > Len(conditions) THEN Ret(TRUE)
    ELSE LET r == _evaluate_condition(landmarks, conditions[k])
         IN  IF r.raised THEN Raise
             ELSE IF ~r.value THEN Ret(FALSE)
             ELSE CheckFrom(landmarks, conditions, k + 1)

_check_gesture_conditions(landmarks, gesture) ==
    CheckFrom(landmarks, Get(gesture, "conditions", <<>>), 1)

\* A call of detect_gesture returns a name or None, or raises.
RetName(n) == [raised |-> FALSE, name |-> n]
RaiseName == [raised |-> TRUE, name |-> None]

RECURSIVE DetectFrom(_, _, _)
\* the loop of detect_gesture from the k-th gesture definition on
DetectFrom(gesture_defs, landmarks, k) ==
    IF k > Len(gesture_defs) THEN RetName(None)
    ELSE LET r == _check_gesture_conditions(landmarks, gesture_defs[k])
         IN  IF r.raised THEN RaiseName
             ELSE IF r.value THEN RetName(gesture_defs[k].name)
             ELSE DetectFrom(gesture_defs, landmarks, k + 1)

detect_gesture(gesture_defs, normalized_landmarks) ==
    IF Len(normalized_landmarks) = 0 \/ Len(normalized_landmarks) < NumLandmarks
    THEN RetName(None)
    ELSE DetectFrom(gesture_defs, normalized_landmarks, 1)

\* ------------------------------------------------------------------------
\* Inputs of the engine: poses, conditions, gesture definitions, flags
\* ------------------------------------------------------------------------
Pt(x, y, z) == [x |-> x, y |-> y, z |-> z]

\* A 21-landmark pose given by its wrist, thumb tip, index tip, middle
\* finger base and last landmark; every other landmark lies on the wrist.
Hand(p0, p4, p8, p9, p20) ==
    [i \in 1..NumLandmarks |->
        CASE i = WRIST + 1 -> p0
          [] i = THUMB_TIP + 1 -> p4
          [] i = INDEX_TIP + 1 -> p8
          [] i = MIDDLE_FINGER_BASE + 1 -> p9
          [] i = NumLandmarks -> p20
          [] OTHER -> p0]

\* thumb on the wrist, index 0.05 above it, hand size 0.20
HandPinch == Hand(Pt(50, 50, 0), Pt(50, 50, 0), Pt(50, 55, 0), Pt(50, 70, 0), Pt(90, 90, 0))
\* wrist, thumb tip and index tip in line: 180 degrees at the thumb tip
HandStraight == Hand(Pt(50, 50, 0), Pt(50, 30, 0), Pt(50, 10, 0), Pt(45, 50, 0), Pt(50, 50, 0))
\* a right angle at the thumb tip, middle finger base on the wrist (size 0)
HandCorner == Hand(Pt(50, 50, 0), Pt(50, 30, 0), Pt(65, 30, 0), Pt(50, 50, 0), Pt(20, 80, 0))
\* thumb and index differ in depth only
HandDeep == Hand(Pt(50, 50, 0), Pt(50, 50, 0), Pt(50, 50, 5), Pt(50, 50, 10), Pt(50, 50, 0))
\* an already wrist-centred hand
HandCentered == Hand(Pt(0, 0, 0), Pt(0, 20, 0), Pt(20, 20, 0), Pt(10, 0, 0), Pt(0, 0, 0))

\* thumb and index tip 0.014 apart, every other landmark on the wrist
HandTestPinch == Hand(Pt(50, 50, 0), Pt(48, 48, 0), Pt(49, 49, 0), Pt(50, 50, 0), Pt(50, 50, 0))

Hands == {HandPinch, HandStraight, HandCorner, HandDeep, HandCentered, HandTestPinch}

\* poses with fewer than 21 points
ShortPoses ==
    {<<>>, SubSeq(HandPinch, 1, 1), SubSeq(HandPinch, 1, 9),
     SubSeq(HandStraight, 1, 10), SubSeq(HandCorner, 1, NumLandmarks - 1)}

Poses == Hands \cup ShortPoses

Bools == {TRUE, FALSE}
Transformations ==
    [displacement_invariant : Bools, scale_invariant : Bools, rotation_invariant : Bools]

\* landmark indices a condition may name: valid ones, one past the end (21),
\* 99, and negative ones (-1 is the last landmark in Python, -22 is before
\* the first of 21)
DistancePoints == {<<4, 8>>, <<0, 9>>, <<4, 99>>, <<21, 8>>, <<-1, 0>>, <<4, -22>>, <<4, 8, 0>>}
DistanceBounds == {<<>>, [max |-> 5], [min |-> 5], [min |-> 5, max |-> 20],
                   [max |-> 20], [min |-> 20], [min |-> 0]}
DistanceConditions ==
    {[type |-> "distance", points |-> ps] @@ b : ps \in DistancePoints, b \in DistanceBounds}

AnglePoints == {<<0, 4, 8>>, <<4, 0, 8>>, <<0, 4, 99>>, <<0, -1, 8>>, <<-22, 4, 8>>, <<0, 4>>}
AngleBounds == {<<>>, [min |-> 150], [min |-> 90], [max |-> 90], [max |-> 180],
                [min |-> 0], [min |-> 90, max |-> 180]}
AngleConditions ==
    {[type |-> "angle", points |-> ps] @@ b : ps \in AnglePoints, b \in AngleBounds}

PositionPoints == {0, 8, 20, 21, 99, -1, -22}
PositionBounds == {<<>>, [x_min |-> 50], [x_max |-> 50], [y_min |-> 55], [y_max |-> 55],
                   [x_min |-> 50, x_max |-> 65, y_min |-> 30, y_max |-> 55],
                   [x_min |-> 60, y_max |-> 30], [x_max |-> 40, y_min |-> 10]}
PositionConditions ==
    {[type |-> "position", point |-> p] @@ b : p \in PositionPoints, b \in PositionBounds}
        \cup {[type |-> "position"] @@ b : b \in PositionBounds}

OtherConditions == {[type |-> "swipe", points |-> <<4, 8>>, max |-> 5], [points |-> <<4, 8>>, max |-> 5]}

Conditions == DistanceConditions \cup AngleConditions \cup PositionConditions \cup OtherConditions

Gesture(name, conditions) == [name |-> name, conditions |-> conditions]

\* gesture definitions with overlapping rule sets
GPinch == Gesture("pinch", <<[type |-> "distance", points |-> <<4, 8>>, max |-> 10]>>)
GNear == Gesture("near", <<[type |-> "distance", points |-> <<4, 8>>, max |-> 30]>>)
GThumbsUp == Gesture("thumbs_up", <<[type |-> "angle", points |-> <<0, 4, 8>>, min |-> 150]>>)
GPoint == Gesture("point", <<[type |-> "distance", points |-> <<4, 8>>, min |-> 10],
                             [type |-> "position", point |-> 8, x_min |-> 60]>>)
GLast == Gesture("last", <<[type |-> "position", point |-> -1, x_min |-> 80]>>)
GBefore == Gesture("before", <<[type |-> "position", point |-> -22, x_min |-> 0]>>)
GFar == Gesture("far", <<[type |-> "distance", points |-> <<4, 99>>, min |-> 0]>>)

\* a definition without conditions, as a configuration file may hold it
GAny == Gesture("any", <<>>)

Gestures == {GPinch, GNear, GThumbsUp, GPoint, GLast, GBefore, GFar, GAny}

\* the longest gesture list the engine is called with
MaxDefs == 2

DefLists ==
    {<<>>} \cup {<<g>> : g \in Gestures}
           \cup {ds \in UNION {[1..n -> Gestures] : n \in 2..MaxDefs} :
                    \A i, j \in DOMAIN ds : i # j => ds[i].name # ds[j].name}

\* ------------------------------------------------------------------------
\* The application: ConfigManager (config_manager.py), the window with its
\* reload handler (pyqt_gui.py or main.py) and the video thread.
\*
\* Python lists are objects: the gesture list of the configuration is shared
\* by reference between ConfigManager.config, the default configuration and
\* every GestureDetector built from get_config() (a shallow copy). heap maps
\* each list object to its contents; a detector is the pair of attributes
\* set by GestureDetector.__init__, its gesture_defs being a list object.
\* ------------------------------------------------------------------------
NumRefs == 6
Refs == 0 .. NumRefs - 1

\* the list object of default_config['gestures']
DefaultRef == 0
NoRef == -1

\* the longest gesture list an add_gesture call is made on
MaxGestures == 3

DefaultTransformations ==
    [displacement_invariant |-> TRUE, scale_invariant |-> TRUE, rotation_invariant |-> FALSE]

DefaultGestures ==
    << Gesture("pinch", <<[type |-> "distance", points |-> <<4, 8>>, max |-> 5]>>),
       Gesture("thumbs_up", <<[type |-> "angle", points |-> <<0, 4, 8>>, min |-> 150]>>) >>

DefaultMappings ==
    [n \in {"pinch", "thumbs_up"} |->
        IF n = "pinch" THEN [type |-> "key_press", key |-> "space"]
        ELSE [type |-> "scroll", direction |-> "vertical", sensitivity |-> 10]]

\* the document _get_default_config builds, as json.dump writes it
_get_default_config ==
    [transformations |-> DefaultTransformations, gestures |-> DefaultGestures,
     mappings |-> DefaultMappings]

Missing == [exists |-> FALSE]
OnDisk(doc) == [exists |-> TRUE, doc |-> doc]

\* ConfigManager._validate_*: the shape checks made before a gesture is stored
_validate_distance_condition(condition) ==
    /\ "points" \in DOMAIN condition
    /\ Len(condition.points) = 2
    /\ ("min" \in DOMAIN condition \/ "max" \in DOMAIN condition)

_validate_angle_condition(condition) ==
    /\ "points" \in DOMAIN condition
    /\ Len(condition.points) = 3
    /\ ("min" \in DOMAIN condition \/ "max" \in DOMAIN condition)

_validate_position_condition(condition) ==
    /\ "point" \in DOMAIN condition
    /\ \E coord \in {"x_min", "x_max", "y_min", "y_max"} : coord \in DOMAIN condition

_validate_condition(condition) ==
    IF "type" \notin DOMAIN condition THEN FALSE
    ELSE CASE condition.type = "distance" -> _validate_distance_condition(condition)
           [] condition.type = "angle" -> _validate_angle_condition(condition)
           [] condition.type = "position" -> _validate_position_condition(condition)
           [] OTHER -> FALSE

_validate_gesture(gesture) ==
    /\ "name" \in DOMAIN gesture
    /\ "conditions" \in DOMAIN gesture
    /\ Len(gesture.conditions) # 0
    /\ \A k \in DOMAIN gesture.conditions : _validate_condition(gesture.conditions[k])

\* GestureDetector.__init__: the two attributes read from the config dict
GestureDetector(cfg) ==
    [transformations |-> cfg.transformations, gesture_defs |-> cfg.gestures]

\* json.dump(self.config): the document with the contents of its lists
Dump(cfg, h) ==
    [transformations |-> cfg.transformations, gestures |-> h[cfg.gestures],
     mappings |-> cfg.mappings]

\* the list objects still referenced by the configuration, a detector or a
\* running iteration; DefaultRef is held by default_config
Live(cfg, gd, td, thr) ==
    {DefaultRef, cfg.gestures, gd.gesture_defs, td.gesture_defs}
        \cup (IF thr.pc = "iterate" THEN {thr.list} ELSE {})

\* a list object that is not referenced any more is collected
Collect(h, live) == [r \in Refs |-> IF r \in live THEN h[r] ELSE <<>>]

\* a new list object
NewRef(live) == CHOOSE r \in Refs \ live : \A q \in Refs \ live : r <= q

\* inputs of the application
AppPoses == {<<>>, HandPinch, HandStraight}

AppTransformations ==
    {DefaultTransformations,
     [displacement_invariant |-> FALSE, scale_invariant |-> FALSE, rotation_invariant |-> FALSE],
     [displacement_invariant |-> TRUE, scale_invariant |-> TRUE, rotation_invariant |-> TRUE]}

\* gestures handed to add_gesture and update_gesture: new names, a name the
\* default configuration has, and one without conditions
AppGestures ==
    {GNear,
     Gesture("pinch", <<[type |-> "distance", points |-> <<4, 8>>, max |-> 30]>>),
     Gesture("empty", <<>>)}

AppNames == {"pinch", "near"}

\* the rule set a detector works with: its flags and the contents of its list
RuleSet(detector, h) ==
    [transformations |-> detector.transformations, gestures |-> h[detector.gesture_defs]]

NoRules == [transformations |-> DefaultTransformations, gestures |-> <<>>]

\* the thread between two frames; normalized_by and detected_by record the
\* rule set of the detector each of the two calls of a cycle was made on
Idle ==
    [pc |-> "read", landmarks |-> <<>>, normalized |-> <<>>, gesture_name |-> "",
     list |-> NoRef, it |-> 0, normalized_by |-> NoRules, detected_by |-> NoRules]

NoReload == [status |-> "none"]

\* no entry point of the engine has been called on its own
NoCall == [op |-> "none"]

\* ConfigManager.save_config: json.dump of the configuration; an I/O error
\* is caught and leaves the file as it was
save_config(cfg, h, d, ok) ==
    IF ok THEN OnDisk([transformations |-> cfg.transformations,
                       gestures |-> h[cfg.gestures], mappings |-> d[cfg.mappings]])
    ELSE file

\* self.default_config.copy(): a new dict holding the default's own objects
DefaultCopy ==
    [transformations |-> DefaultTransformations, gestures |-> DefaultRef,
     mappings |-> DefaultRef]

\* the dict objects still referenced
DictLive(cfg) == {DefaultRef, cfg.mappings}

\* State when the video thread has been started (pyqt_gui.py:167,
\* main.py:66): ConfigManager() has loaded the file, or found none and
\* fallen back on a copy of the defaults, and the window's detector and the
\* thread's detector are the one built from get_config().
AppInit ==
    /\ frontend \in {"pyqt_gui", "main"}
    /\ \/ /\ file = OnDisk(_get_default_config)
          /\ config = [transformations |-> DefaultTransformations, gestures |-> 1,
                       mappings |-> 1]
          /\ heap = [r \in Refs |-> IF r \in {DefaultRef, 1} THEN DefaultGestures ELSE <<>>]
          /\ dicts = [r \in Refs |-> IF r \in {DefaultRef, 1} THEN DefaultMappings ELSE <<>>]
       \/ /\ file \in {Missing, OnDisk(_get_default_config)}
          /\ config = DefaultCopy
          /\ heap = [r \in Refs |-> IF r = DefaultRef THEN DefaultGestures ELSE <<>>]
          /\ dicts = [r \in Refs |-> IF r = DefaultRef THEN DefaultMappings ELSE <<>>]
    /\ gesture_detector = GestureDetector(config)
    /\ thread_gesture_detector = GestureDetector(config)
    /\ thread = Idle
    /\ reload = NoReload
    /\ returned = [op |-> "none"]
    /\ edits = 0
    /\ evalLandmarks = <<>>
    /\ call = NoCall
    /\ ExecOff
    /\ DispatchOff

\* VideoThread.run, one frame: read_frame and get_landmarks. Without a hand
\* the cycle goes straight to the emission of "".
ReadFrame ==
    \E landmarks \in AppPoses :
        /\ thread.pc = "read"
        /\ thread' = [Idle EXCEPT !.landmarks = landmarks,
                                  !.pc = IF landmarks # <<>> THEN "normalize" ELSE "emit"]
        /\ UNCHANGED <<frontend, file, heap, dicts, config, gesture_detector,
                       thread_gesture_detector, reload, returned, edits,
                       evalLandmarks, call, ExecVars, DispatchVars>>

\* self.gesture_detector.normalize_keypoints(landmarks): the attribute is
\* read, then the detector it holds normalizes
Normalize ==
    /\ thread.pc = "normalize"
    /\ thread' = [thread EXCEPT
           !.normalized = normalize_keypoints(thread_gesture_detector.transformations,
                                              thread.landmarks),
           !.normalized_by = RuleSet(thread_gesture_detector, heap),
           !.pc = "detect"]
    /\ UNCHANGED <<frontend, file, heap, dicts, config, gesture_detector,
                   thread_gesture_detector, reload, returned, edits,
                   evalLandmarks, call, ExecVars, DispatchVars>>

\* self.gesture_detector.detect_gesture(normalized_landmarks): the attribute
\* is read again; the detector it holds now starts iterating its list
Detect ==
    /\ thread.pc = "detect"
    /\ IF Len(thread.normalized) < NumLandmarks
       THEN thread' = [thread EXCEPT !.detected_by = RuleSet(thread_gesture_detector, heap),
                                     !.gesture_name = "", !.pc = "emit"]
       ELSE thread' = [thread EXCEPT !.detected_by = RuleSet(thread_gesture_detector, heap),
                                     !.list = thread_gesture_detector.gesture_defs,
                                     !.it = 0, !.pc = "iterate"]
    /\ UNCHANGED <<frontend, file, heap, dicts, config, gesture_detector,
                   thread_gesture_detector, reload, returned, edits,
                   evalLandmarks, call, ExecVars, DispatchVars>>

\* one round of "for gesture in self.gesture_defs": the list iterator looks
\* at the list object as it is now. An exception leaves run() and ends the
\* thread.
Iterate ==
    /\ thread.pc = "iterate"
    /\ LET lst == heap[thread.list]
           done(name) == [thread EXCEPT !.gesture_name = name, !.pc = "emit",
                                        !.list = NoRef, !.it = 0]
       IN  IF thread.it >= Len(lst) THEN thread' = done("")
           ELSE LET gesture == lst[thread.it + 1]
                    r == _check_gesture_conditions(thread.normalized, gesture)
                IN  IF r.raised
                    THEN thread' = [thread EXCEPT !.pc = "dead", !.list = NoRef, !.it = 0]
                    ELSE IF r.value THEN thread' = done(gesture.name)
                    ELSE thread' = [thread EXCEPT !.it = @ + 1]
    /\ heap' = Collect(heap, Live(config, gesture_detector, thread_gesture_detector, thread'))
    /\ UNCHANGED <<frontend, file, dicts, config, gesture_detector,
                   thread_gesture_detector, reload, returned, edits,
                   evalLandmarks, call, ExecVars, DispatchVars>>

\* gesture_detected_signal.emit(gesture_name or ""), then the next frame
Emit ==
    /\ thread.pc = "emit"
    /\ thread' = Idle
    /\ UNCHANGED <<frontend, file, heap, dicts, config, gesture_detector,
                   thread_gesture_detector, reload, returned, edits,
                   evalLandmarks, call, ExecVars, DispatchVars>>

\* the most ConfigManager calls made in one run
MaxEdits == 2

\* ConfigManager.add_gesture: validation, the duplicate-name test, append to
\* the list object of the configuration, save_config
AddGesture ==
    \E gesture \in AppGestures, ok \in Bools :
        LET lst == heap[config.gestures]
        IN  /\ edits < MaxEdits
            /\ Len(lst) < MaxGestures
            /\ edits' = edits + 1
            /\ IF ~_validate_gesture(gesture)
                  \/ \E k \in DOMAIN lst : lst[k].name = gesture.name
               THEN /\ returned' = [op |-> "add_gesture", value |-> FALSE]
                    /\ UNCHANGED <<heap, file>>
               ELSE /\ heap' = [heap EXCEPT ![config.gestures] = Append(lst, gesture)]
                    /\ file' = save_config(config, heap', dicts, ok)
                    /\ returned' = [op |-> "add_gesture", value |-> ok]
            /\ UNCHANGED <<frontend, dicts, config, gesture_detector,
                           thread_gesture_detector, thread, reload,
                           evalLandmarks, call, ExecVars, DispatchVars>>

\* ConfigManager.update_gesture: validation, then the first entry of that
\* name is overwritten in the list object of the configuration, save_config
UpdateGesture ==
    \E gesture_name \in AppNames, new_gesture \in AppGestures, ok \in Bools :
        LET gestures == heap[config.gestures]
            found == {i \in DOMAIN gestures : gestures[i].name = gesture_name}
        IN  /\ edits < MaxEdits
            /\ edits' = edits + 1
            /\ IF ~_validate_gesture(new_gesture) \/ found = {}
               THEN /\ returned' = [op |-> "update_gesture", value |-> FALSE]
                    /\ UNCHANGED <<heap, file>>
               ELSE LET i == CHOOSE i \in found : \A j \in found : i <= j
                    IN  /\ heap' = [heap EXCEPT ![config.gestures][i] = new_gesture]
                        /\ file' = save_config(config, heap', dicts, ok)
                        /\ returned' = [op |-> "update_gesture", value |-> ok]
            /\ UNCHANGED <<frontend, dicts, config, gesture_detector,
                           thread_gesture_detector, thread, reload,
                           evalLandmarks, call, ExecVars, DispatchVars>>

\* ConfigManager.remove_gesture: a new list without the entries of that
\* name replaces the list of the configuration, the mapping of that name is
\* deleted from the mappings dict, save_config
RemoveGesture ==
    \E gesture_name \in AppNames, ok \in Bools :
        LET gestures == heap[config.gestures]
            Keep(g) == g.name # gesture_name
            new == NewRef(Live(config, gesture_detector, thread_gesture_detector, thread))
            mappings == dicts[config.mappings]
        IN  /\ edits < MaxEdits
            /\ edits' = edits + 1
            /\ config' = [config EXCEPT !.gestures = new]
            /\ heap' = Collect([heap EXCEPT ![new] = SelectSeq(gestures, Keep)],
                               Live(config', gesture_detector, thread_gesture_detector, thread))
            /\ dicts' = [dicts EXCEPT ![config.mappings] =
                            [n \in DOMAIN mappings \ {gesture_name} |-> mappings[n]]]
            /\ file' = save_config(config', heap', dicts', ok)
            /\ returned' = [op |-> "remove_gesture", value |-> ok]
            /\ UNCHANGED <<frontend, gesture_detector, thread_gesture_detector,
                           thread, reload, evalLandmarks, call, ExecVars, DispatchVars>>

\* ConfigManager.update_transformations: the flags dict is replaced by a
\* copy of the argument, save_config
UpdateTransformations ==
    \E transformations \in AppTransformations, ok \in Bools :
        /\ edits < MaxEdits
        /\ edits' = edits + 1
        /\ config' = [config EXCEPT !.transformations = transformations]
        /\ file' = save_config(config', heap, dicts, ok)
        /\ returned' = [op |-> "update_transformations", value |-> ok]
        /\ UNCHANGED <<frontend, heap, dicts, gesture_detector,
                       thread_gesture_detector, thread, reload, evalLandmarks, call, ExecVars, DispatchVars>>

\* pyqt_gui.py load_config: a new GestureDetector is built from get_config()
\* and stored in the window and in the running thread
load_config ==
    /\ frontend = "pyqt_gui"
    /\ gesture_detector' = GestureDetector(config)
    /\ thread_gesture_detector' = gesture_detector'
    /\ heap' = Collect(heap, Live(config, gesture_detector', thread_gesture_detector', thread))
    /\ reload' = [status |-> "applied", transformations |-> config.transformations,
                  gestures |-> heap[config.gestures]]
    /\ UNCHANGED <<frontend, file, dicts, config, thread, returned, edits,
                   evalLandmarks, call, ExecVars, DispatchVars>>

\* a file that is not JSON
Garbage == [exists |-> TRUE]
IsJson(f) == "doc" \in DOMAIN f

\* ConfigManager.load_config: json.load builds new objects from the file,
\* whatever the document holds; without a file the configuration becomes a
\* copy of the defaults, which is saved; a file that does not parse gives a
\* copy of the defaults, not saved
ConfigManager_load_config(ok) ==
    IF file.exists /\ IsJson(file)
    THEN LET l == NewRef(Live(config, gesture_detector, thread_gesture_detector, thread))
             d == NewRef(DictLive(config))
         IN  /\ config' = [transformations |-> file.doc.transformations,
                           gestures |-> l, mappings |-> d]
             /\ heap' = Collect([heap EXCEPT ![l] = file.doc.gestures],
                                Live(config', gesture_detector,
                                     thread_gesture_detector, thread))
             /\ dicts' = Collect([dicts EXCEPT ![d] = file.doc.mappings],
                                 DictLive(config'))
             /\ file' = file
    ELSE /\ config' = DefaultCopy
         /\ heap' = Collect(heap, Live(config', gesture_detector,
                                       thread_gesture_detector, thread))
         /\ dicts' = Collect(dicts, DictLive(config'))
         /\ file' = IF file.exists THEN file ELSE save_config(config', heap', dicts', ok)

\* main.py _reload_config: ConfigManager.load_config, then
\* self.gesture_detector.update_config(new_config) is called, a method
\* GestureDetector does not have: AttributeError leaves the handler with the
\* detector as it was.
_reload_config ==
    \E ok \in Bools :
        /\ frontend = "main"
        /\ ConfigManager_load_config(ok)
        /\ reload' = [status |-> "raised", transformations |-> config'.transformations,
                      gestures |-> heap'[config'.gestures]]
        /\ UNCHANGED <<frontend, gesture_detector, thread_gesture_detector, thread,
                       returned, edits, evalLandmarks, call, ExecVars, DispatchVars>>

\* ------------------------------------------------------------------------
\* The configuration layer on its own: any sequence of ConfigManager
\* operations, the file being edited by hand in between, and the reload
\* handlers that hand the configuration to the engine.
\* ------------------------------------------------------------------------
_validate_mapping(mapping) ==
    IF "type" \notin DOMAIN mapping THEN FALSE
    ELSE CASE mapping.type \in {"key_press", "key_hold"} -> "key" \in DOMAIN mapping
           [] mapping.type = "mouse_click" -> TRUE
           [] mapping.type \in {"mouse_move", "scroll", "volume"} ->
                  "sensitivity" \in DOMAIN mapping
           [] mapping.type = "custom" -> "command" \in DOMAIN mapping
           [] OTHER -> FALSE

\* mappings handed to add_mapping: a valid one, one without its key, one of
\* an unknown type
AppMappings ==
    {[type |-> "key_press", key |-> "f"], [type |-> "key_press"], [type |-> "wave"]}

\* documents a hand-edited configuration file may hold: gestures that
\* _validate_gesture would refuse, and two gestures of one name
BadDoc ==
    [transformations |-> DefaultTransformations,
     gestures |-> << Gesture("open", <<[type |-> "distance", points |-> <<4, 8>>]>>),
                     Gesture("empty", <<>>),
                     Gesture("swipe", <<[type |-> "swipe", points |-> <<4, 8>>, max |-> 5]>>) >>,
     mappings |-> DefaultMappings]

DupDoc ==
    [transformations |-> DefaultTransformations,
     gestures |-> << DefaultGestures[1], GNear,
                     Gesture("near", <<[type |-> "distance", points |-> <<0, 9>>, min |-> 5]>>) >>,
     mappings |-> DefaultMappings]

Documents == {_get_default_config, BadDoc, DupDoc}

\* the configuration file is rewritten or deleted outside the program
EditFile ==
    \E f \in {OnDisk(doc) : doc \in Documents} \cup {Garbage, Missing} :
        /\ f # file
        /\ file' = f
        /\ UNCHANGED <<frontend, heap, dicts, config, gesture_detector,
                       thread_gesture_detector, thread, reload, returned, edits,
                       evalLandmarks, call, ExecVars, DispatchVars>>

\* ConfigManager.load_config called on its own
LoadConfig ==
    \E ok \in Bools :
        /\ edits < MaxEdits
        /\ edits' = edits + 1
        /\ ConfigManager_load_config(ok)
        /\ returned' = [op |-> "load_config", value |-> (~file.exists \/ IsJson(file))]
        /\ UNCHANGED <<frontend, gesture_detector, thread_gesture_detector, thread,
                       reload, evalLandmarks, call, ExecVars, DispatchVars>>

\* ConfigManager.reset_to_default: the configuration becomes a copy of
\* default_config (a new dict holding the default's own list and dict),
\* save_config
ResetToDefault ==
    \E ok \in Bools :
        /\ edits < MaxEdits
        /\ edits' = edits + 1
        /\ config' = DefaultCopy
        /\ heap' = Collect(heap, Live(config', gesture_detector,
                                      thread_gesture_detector, thread))
        /\ dicts' = Collect(dicts, DictLive(config'))
        /\ file' = save_config(config', heap', dicts', ok)
        /\ returned' = [op |-> "reset_to_default", value |-> ok]
        /\ UNCHANGED <<frontend, gesture_detector, thread_gesture_detector, thread,
                       reload, evalLandmarks, call, ExecVars, DispatchVars>>

\* ConfigManager.add_mapping: validation, then the entry is set in the
\* mappings dict of the configuration, save_config
AddMapping ==
    \E gesture_name \in AppNames, mapping \in AppMappings, ok \in Bools :
        LET mappings == dicts[config.mappings]
        IN  /\ edits < MaxEdits
            /\ edits' = edits + 1
            /\ IF ~_validate_mapping(mapping)
               THEN /\ returned' = [op |-> "add_mapping", value |-> FALSE]
                    /\ UNCHANGED <<dicts, file>>
               ELSE /\ dicts' = [dicts EXCEPT ![config.mappings] =
                                    [n \in DOMAIN mappings \cup {gesture_name} |->
                                        IF n = gesture_name THEN mapping ELSE mappings[n]]]
                    /\ file' = save_config(config, heap, dicts', ok)
                    /\ returned' = [op |-> "add_mapping", value |-> ok]
            /\ UNCHANGED <<frontend, heap, config, gesture_detector,
                           thread_gesture_detector, thread, reload, evalLandmarks, call, ExecVars, DispatchVars>>

ConfigNext ==
    \/ AddGesture \/ UpdateGesture \/ RemoveGesture \/ UpdateTransformations
    \/ AddMapping \/ ResetToDefault \/ LoadConfig \/ EditFile
    \/ load_config \/ _reload_config

Next ==
    \/ ReadFrame \/ Normalize \/ Detect \/ Iterate \/ Emit
    \/ AddGesture \/ UpdateGesture \/ RemoveGesture \/ UpdateTransformations
    \/ load_config \/ _reload_config

\* ------------------------------------------------------------------------
\* The command executor (command_executor.py).  Time is counted in tenths
\* of a second, the resolution at which the cooldown of 0.5 s is exact.
\* ------------------------------------------------------------------------
Cooldown == 5

MaxTime == 7

\* mappings an executor is given: the default ones, and a set with a click,
\* a volume command, a key press without its key and an unknown type
OtherMappings ==
    [n \in {"pinch", "thumbs_up", "hold", "wave"} |->
        CASE n = "pinch" -> [type |-> "mouse_click", button |-> "left"]
          [] n = "thumbs_up" -> [type |-> "volume", sensitivity |-> 5]
          [] n = "hold" -> [type |-> "key_press"]
          [] OTHER -> [type |-> "wave"]]

ExecMappings == {DefaultMappings, OtherMappings}

ExecNames == {"pinch", "thumbs_up", "hold", "wave", "fist"}

\* an Optional[float]: None, or the float
NoValue == <<>>

Value(v) == <<v>>

AnalogueValues == {NoValue, Value(50)}

\* no earlier time
Never == -1

\* the _execute_* helper selected by the command type: whether it reports
\* success when the automation library does not raise
Performed(command_def, analogue_value) ==
    LET command_type == Get(command_def, "type", None)
    IN  CASE command_type \in {"key_press", "key_hold"} -> "key" \in DOMAIN command_def
          [] command_type = "mouse_click" -> TRUE
          [] command_type \in {"mouse_move", "scroll", "volume"} -> analogue_value # NoValue
          [] command_type = "custom" -> "command" \in DOMAIN command_def
          [] OTHER -> FALSE

\* d[k] = v on a Python dict
Put(d, k, v) == [n \in DOMAIN d \cup {k} |-> IF n = k THEN v ELSE d[n]]

\* execute_command recording the time of every attempt that passed the
\* cooldown test, whether its command ran or not
execute_command_recording_attempts(executor, gesture_name, analogue_value, current_time, raises) ==
    LET unchanged(result) == [result |-> result, last_execution |-> executor.last_execution]
    IN  IF gesture_name \notin DOMAIN executor.mappings THEN unchanged(FALSE)
        ELSE IF /\ gesture_name \in DOMAIN executor.last_execution
                /\ current_time - executor.last_execution[gesture_name] < Cooldown
        THEN unchanged(FALSE)
        ELSE [result |-> Performed(executor.mappings[gesture_name], analogue_value)
                             /\ ~raises,
              last_execution |-> Put(executor.last_execution, gesture_name, current_time)]

\* CommandExecutor.execute_command at time current_time; raises tells whether
\* the automation library raises, which the method catches and reports as
\* False.  The result and the executor's history after the call.
execute_command(executor, gesture_name, analogue_value, current_time, raises) ==
    LET unchanged(result) == [result |-> result, last_execution |-> executor.last_execution]
    IN  IF gesture_name \notin DOMAIN executor.mappings THEN unchanged(FALSE)
        ELSE IF /\ gesture_name \in DOMAIN executor.last_execution
                /\ current_time - executor.last_execution[gesture_name] < Cooldown
        THEN unchanged(FALSE)
        ELSE IF /\ Performed(executor.mappings[gesture_name], analogue_value)
                /\ ~raises
        THEN [result |-> TRUE,
              last_execution |-> Put(executor.last_execution, gesture_name, current_time)]
        ELSE unchanged(FALSE)

\* CommandExecutor.update_mappings
update_mappings(executor, new_mappings) ==
    [mappings |-> new_mappings, last_execution |-> <<>>]

\* the application is not running
AppOff ==
    /\ frontend = "none"
    /\ file = Missing
    /\ heap = [r \in Refs |-> IF r = DefaultRef THEN DefaultGestures ELSE <<>>]
    /\ dicts = [r \in Refs |-> IF r = DefaultRef THEN DefaultMappings ELSE <<>>]
    /\ config = DefaultCopy
    /\ gesture_detector = GestureDetector(config)
    /\ thread_gesture_detector = GestureDetector(config)
    /\ thread = Idle
    /\ reload = NoReload
    /\ returned = [op |-> "none"]
    /\ edits = 0

\* CommandExecutor(mappings): an empty history.  executed is the time of each
\* gesture's latest successful execution, kept outside the executor.
ExecInit ==
    /\ \E mappings \in ExecMappings :
           command_executor = [mappings |-> mappings, last_execution |-> <<>>]
    /\ now = 0
    /\ executed = <<>>
    /\ execution = [op |-> "none"]
    /\ evalLandmarks = <<>>
    /\ call = NoCall
    /\ AppOff
    /\ DispatchOff

\* time passes
Tick ==
    /\ now < MaxTime
    /\ now' = now + 1
    /\ UNCHANGED <<command_executor, executed, execution, evalLandmarks, call,
                   AppVars, DispatchVars>>

\* one call of self.command_executor.execute_command, recorded
Execute(gesture_name, analogue_value, raises) ==
    LET done == execute_command(command_executor, gesture_name, analogue_value,
                                now, raises)
    IN  /\ command_executor' = [command_executor EXCEPT
                                    !.last_execution = done.last_execution]
        /\ execution' = [op |-> "execute_command", gesture_name |-> gesture_name,
                         analogue_value |-> analogue_value, time |-> now,
                         result |-> done.result,
                         previous |-> Get(executed, gesture_name, Never)]
        /\ executed' = IF done.result THEN Put(executed, gesture_name, now)
                       ELSE executed

ExecuteCommand ==
    \E gesture_name \in ExecNames, analogue_value \in AnalogueValues, raises \in BOOLEAN :
        /\ Execute(gesture_name, analogue_value, raises)
        /\ UNCHANGED <<now, evalLandmarks, call, AppVars, DispatchVars>>

UpdateMappings ==
    \E new_mappings \in ExecMappings :
        /\ command_executor' = update_mappings(command_executor, new_mappings)
        /\ execution' = [op |-> "update_mappings"]
        /\ UNCHANGED <<now, executed, evalLandmarks, call, AppVars, DispatchVars>>

ExecNext == Tick \/ ExecuteCommand \/ UpdateMappings

\* ------------------------------------------------------------------------
\* main.py's pipeline: the video thread of gui/video_thread.py emits its two
\* signals per frame, the window's event loop delivers them in the order of
\* emission (queued connections across threads), and on_gesture_detected
\* hands the gesture to the command executor.
\* ------------------------------------------------------------------------
MaxEvents == 3

\* the thumb half-way between wrist and index tip, hand size 0.10
HandThumbsUp == Hand(Pt(50, 50, 0), Pt(50, 40, 0), Pt(50, 30, 0), Pt(50, 60, 0), Pt(50, 50, 0))

\* frames the camera delivers: no hand, and two hands showing thumbs_up
\* with different thumb heights
DispatchPoses == {<<>>, HandStraight, HandThumbsUp}

\* GestureDetector.get_analogue_value
get_analogue_value(landmarks, gesture_name) ==
    IF gesture_name = "thumbs_up" /\ Len(landmarks) > THUMB_TIP
    THEN Value(Unit - landmarks[THUMB_TIP + 1].y)
    ELSE NoValue

\* GestureMapperGUI.__init__ and _setup_video_thread: the thread is started,
\* no landmarks are stored yet, commands are disabled, the executor holds
\* the configured mappings
DispatchInit ==
    /\ video_thread = [pc |-> "while", _run_flag |-> TRUE, raw_landmarks |-> <<>>,
                       normalized_landmarks |-> <<>>, gesture_name |-> ""]
    /\ events = <<>>
    /\ window = [shown |-> TRUE, raw_landmarks |-> <<>>, normalized_landmarks |-> <<>>,
                 commands_enabled |-> FALSE, stop |-> "not called"]
    /\ dispatched = [op |-> "none"]
    /\ command_executor = [mappings |-> DefaultMappings, last_execution |-> <<>>]
    /\ now = 0
    /\ executed = <<>>
    /\ execution = [op |-> "none"]
    /\ evalLandmarks = <<>>
    /\ call = NoCall
    /\ AppOff

\* VideoThread.run, "while self._run_flag" found true.  The queue of
\* signals is unbounded in the program; here a cycle starts only when there
\* is room for its two signals, so that an emission never waits.
EnterLoop ==
    /\ video_thread.pc = "while"
    /\ video_thread._run_flag
    /\ Len(events) + 2 <= MaxEvents
    /\ video_thread' = [video_thread EXCEPT !.pc = "read"]
    /\ UNCHANGED <<events, window, dispatched, evalLandmarks, call, AppVars, ExecVars>>

\* VideoThread.run, read_frame without success: msleep(10), continue
ReadFails ==
    /\ video_thread.pc = "read"
    /\ video_thread' = [video_thread EXCEPT !.pc = "while"]
    /\ UNCHANGED <<events, window, dispatched, evalLandmarks, call, AppVars, ExecVars>>

\* VideoThread.run, core processing of one frame that was read; an
\* exception of the detector would end the thread
ProcessFrame ==
    \E raw_landmarks \in DispatchPoses :
        LET normalized_landmarks ==
                IF raw_landmarks # <<>>
                THEN normalize_keypoints(gesture_detector.transformations, raw_landmarks)
                ELSE <<>>
            detected ==
                IF raw_landmarks # <<>>
                THEN detect_gesture(heap[gesture_detector.gesture_defs],
                                    normalized_landmarks)
                ELSE RetName(None)
        IN  /\ video_thread.pc = "read"
            /\ ~detected.raised
            /\ video_thread' = [pc |-> "emit_gesture",
                                _run_flag |-> video_thread._run_flag,
                                raw_landmarks |-> raw_landmarks,
                                normalized_landmarks |-> normalized_landmarks,
                                gesture_name |-> IF detected.name = None THEN ""
                                                 ELSE detected.name]
            /\ UNCHANGED <<events, window, dispatched, evalLandmarks, call, AppVars,
                           ExecVars>>

\* self.gesture_detected_signal.emit(gesture_name); matched_on is not part of
\* the signal: it remembers the normalised pose the name was detected on
EmitGesture ==
    /\ video_thread.pc = "emit_gesture"
    /\ events' = Append(events, [signal |-> "gesture_detected",
                                 gesture_name |-> video_thread.gesture_name,
                                 matched_on |-> video_thread.normalized_landmarks])
    /\ video_thread' = [video_thread EXCEPT !.pc = "emit_landmarks"]
    /\ UNCHANGED <<window, dispatched, evalLandmarks, call, AppVars, ExecVars>>

\* self.landmarks_signal.emit(raw_landmarks or [], normalized_landmarks or [])
EmitLandmarks ==
    /\ video_thread.pc = "emit_landmarks"
    /\ events' = Append(events, [signal |-> "landmarks",
                                 raw_landmarks |-> video_thread.raw_landmarks,
                                 normalized_landmarks |->
                                     video_thread.normalized_landmarks])
    /\ video_thread' = [video_thread EXCEPT !.pc = "while"]
    /\ UNCHANGED <<window, dispatched, evalLandmarks, call, AppVars, ExecVars>>

\* the window's thread runs its event loop: it is not inside stop()
EventLoopRuns == window.stop # "waiting"

\* GestureMapperGUI.on_landmarks_received, run by the event loop
on_landmarks_received ==
    /\ EventLoopRuns
    /\ events # <<>>
    /\ Head(events).signal = "landmarks"
    /\ window' = [window EXCEPT
                     !.raw_landmarks = Head(events).raw_landmarks,
                     !.normalized_landmarks = Head(events).normalized_landmarks]
    /\ events' = Tail(events)
    /\ UNCHANGED <<video_thread, dispatched, evalLandmarks, call, AppVars, ExecVars>>

\* the test of on_gesture_detected with the check box left out
Dispatching_whenever_matched(commands_enabled, gesture_name) ==
    gesture_name # ""

\* on_gesture_detected: if self.commands_enabled and gesture_name
Dispatching(commands_enabled, gesture_name) ==
    commands_enabled /\ gesture_name # ""

\* GestureMapperGUI.on_gesture_detected, run by the event loop
on_gesture_detected ==
    \E raises \in BOOLEAN :
        LET gesture_name == Head(events).gesture_name
            analogue_value == get_analogue_value(window.normalized_landmarks, gesture_name)
        IN  /\ EventLoopRuns
            /\ events # <<>>
            /\ Head(events).signal = "gesture_detected"
            /\ events' = Tail(events)
            /\ IF Dispatching(window.commands_enabled, gesture_name)
               THEN /\ Execute(gesture_name, analogue_value, raises)
                    /\ dispatched' = [op |-> "execute_command",
                                      gesture_name |-> gesture_name,
                                      analogue_value |-> analogue_value,
                                      landmarks |-> window.normalized_landmarks,
                                      matched_on |-> Head(events).matched_on]
               ELSE /\ dispatched' = [op |-> "none", gesture_name |-> gesture_name,
                                      commands_enabled |-> window.commands_enabled]
                    /\ UNCHANGED <<command_executor, execution, executed>>
            /\ UNCHANGED <<now, video_thread, window, evalLandmarks, call, AppVars>>

\* GestureMapperGUI._toggle_commands
_toggle_commands ==
    \E checked \in BOOLEAN :
        /\ EventLoopRuns
        /\ window' = [window EXCEPT !.commands_enabled = checked]
        /\ UNCHANGED <<video_thread, events, dispatched, evalLandmarks, call, AppVars,
                       ExecVars>>

\* the clock stands still here: the executor's cooldown over time is the
\* subject of ExecNext
DispatchNext ==
    \/ EnterLoop \/ ReadFails \/ ProcessFrame \/ EmitGesture \/ EmitLandmarks
    \/ on_landmarks_received \/ on_gesture_detected \/ _toggle_commands

\* VideoThread.run, "while self._run_flag" found false: run returns
ExitLoop ==
    /\ video_thread.pc = "while"
    /\ ~video_thread._run_flag
    /\ video_thread' = [video_thread EXCEPT !.pc = "finished"]
    /\ UNCHANGED <<events, window, dispatched, evalLandmarks, call, AppVars, ExecVars>>

\* a stop that waits without clearing the flag
Stop_leaving_run_flag ==
    /\ window.stop = "not called"
    /\ window' = [window EXCEPT !.stop = "waiting"]
    /\ UNCHANGED <<video_thread, events, dispatched, evalLandmarks, call, AppVars,
                   ExecVars>>

\* closeEvent calls VideoThread.stop: self._run_flag = False, then the
\* calling thread blocks in self.wait()
Stop ==
    /\ window.stop = "not called"
    /\ video_thread' = [video_thread EXCEPT !._run_flag = FALSE]
    /\ window' = [window EXCEPT !.stop = "waiting"]
    /\ UNCHANGED <<events, dispatched, evalLandmarks, call, AppVars, ExecVars>>

\* self.wait() returns once run has returned, and so does stop
StopReturns ==
    /\ window.stop = "waiting"
    /\ video_thread.pc = "finished"
    /\ window' = [window EXCEPT !.stop = "returned"]
    /\ UNCHANGED <<video_thread, events, dispatched, evalLandmarks, call, AppVars,
                   ExecVars>>

\* the steps of the video thread
VideoThreadRun ==
    EnterLoop \/ ReadFails \/ ProcessFrame \/ EmitGesture \/ EmitLandmarks \/ ExitLoop

StopNext == DispatchNext \/ ExitLoop \/ Stop \/ StopReturns

\* ------------------------------------------------------------------------
\* The engine called on its own: a pose is supplied, then any of the three
\* entry points is called on it with any rule set.
\* ------------------------------------------------------------------------
\* the application is not running while the engine is called on its own
EvalInit ==
    /\ evalLandmarks \in Poses
    /\ call = NoCall
    /\ frontend = "none"
    /\ file = Missing
    /\ heap = [r \in Refs |-> IF r = DefaultRef THEN DefaultGestures ELSE <<>>]
    /\ dicts = [r \in Refs |-> IF r = DefaultRef THEN DefaultMappings ELSE <<>>]
    /\ config = DefaultCopy
    /\ gesture_detector = GestureDetector(config)
    /\ thread_gesture_detector = GestureDetector(config)
    /\ thread = Idle
    /\ reload = NoReload
    /\ returned = [op |-> "none"]
    /\ edits = 0
    /\ ExecOff
    /\ DispatchOff

CallNormalize ==
    \E t \in Transformations :
        /\ call = NoCall
        /\ call' = [op |-> "normalize_keypoints", transformations |-> t,
                    normalized |-> normalize_keypoints(t, evalLandmarks)]
        /\ UNCHANGED <<evalLandmarks, AppVars, ExecVars, DispatchVars>>

CallEvaluate ==
    \E c \in Conditions :
        /\ call = NoCall
        /\ call' = [op |-> "_evaluate_condition", condition |-> c,
                    result |-> _evaluate_condition(evalLandmarks, c)]
        /\ UNCHANGED <<evalLandmarks, AppVars, ExecVars, DispatchVars>>

CallDetect ==
    \E ds \in DefLists :
        /\ call = NoCall
        /\ call' = [op |-> "detect_gesture", gesture_defs |-> ds,
                    result |-> detect_gesture(ds, evalLandmarks)]
        /\ UNCHANGED <<evalLandmarks, AppVars, ExecVars, DispatchVars>>

\* a gesture as _save_new_gesture stores it when the normalization group is
\* checked: with the flags of the left panel as its normalization_overrides
WithOverrides(gesture, overrides) ==
    [name |-> gesture.name, conditions |-> gesture.conditions,
     normalization_overrides |-> overrides]

NoTransformations ==
    [displacement_invariant |-> FALSE, scale_invariant |-> FALSE,
     rotation_invariant |-> FALSE]

OverrideGestures ==
    {GPinch, GNear, DefaultGestures[1], WithOverrides(GPinch, DefaultTransformations),
     WithOverrides(GNear, NoTransformations)}

OverrideLists ==
    UNION {[1..n -> OverrideGestures] : n \in 1..MaxDefs}

\* the two engine calls of VideoThread.run on one frame: normalize_keypoints
\* with the detector's flags, then detect_gesture on its result
CallPipeline ==
    \E t \in Transformations, ds \in OverrideLists :
        /\ call = NoCall
        /\ evalLandmarks # <<>>
        /\ call' = [op |-> "run", transformations |-> t, gesture_defs |-> ds,
                    normalized |-> normalize_keypoints(t, evalLandmarks),
                    result |-> detect_gesture(ds, normalize_keypoints(t, evalLandmarks))]
        /\ UNCHANGED <<evalLandmarks, AppVars, ExecVars, DispatchVars>>

EvalNext == CallNormalize \/ CallEvaluate \/ CallDetect \/ CallPipeline

vars == <<evalLandmarks, call, AppVars, ExecVars, DispatchVars>>

Spec == AppInit /\ [][Next]_vars

SpecConfig == AppInit /\ [][ConfigNext]_vars

SpecEval == EvalInit /\ [][EvalNext]_vars

SpecExec == ExecInit /\ [][ExecNext]_vars

SpecDispatch == DispatchInit /\ [][DispatchNext]_vars

\* the video thread is scheduled as long as it has a step to take, and a
\* wait() that can return does
SpecStop ==
    DispatchInit /\ [][StopNext]_vars /\ WF_vars(VideoThreadRun) /\ WF_vars(StopReturns)

\* ------------------------------------------------------------------------
\* Properties of the engine called on its own (SpecEval)
\* ------------------------------------------------------------------------
IsCall(op) == call.op = op
CallOf(kind) == IsCall("_evaluate_condition") /\ Get(call.condition, "type", None) = kind

\* the landmark a valid index names: index i of 0 .. len-1
Valid(landmarks, i) == 0 <= i /\ i < Len(landmarks)

\* every condition of the gesture is evaluated and comes out true
AllTrue(landmarks, gesture) ==
    \A k \in DOMAIN gesture.conditions :
        LET r == _evaluate_condition(landmarks, gesture.conditions[k])
        IN  ~r.raised /\ r.value

Matching(gesture_defs, landmarks) ==
    {i \in DOMAIN gesture_defs : AllTrue(landmarks, gesture_defs[i])}

FirstMatching(gesture_defs, landmarks) ==
    CHOOSE i \in Matching(gesture_defs, landmarks) :
        \A j \in Matching(gesture_defs, landmarks) : i <= j

\* C1: on a 21-point pose that satisfies at least one gesture definition,
\* detect_gesture returns the name of the earliest definition in the list
\* all of whose conditions evaluate true.
C1_FirstMatchReturned ==
    (IsCall("detect_gesture") /\ Len(evalLandmarks) >= NumLandmarks
        /\ Matching(call.gesture_defs, evalLandmarks) # {})
    => call.result = RetName(call.gesture_defs[
                                 FirstMatching(call.gesture_defs, evalLandmarks)].name)

ActiveRules == RuleSet(thread_gesture_detector, heap)

\* C3: the flags and the gesture list of the running detector change only
\* in a reload step; no other step, a ConfigManager edit in particular,
\* alters them or the list a running detect_gesture is iterating over.
C3_ChangedByReloadOnly ==
    [][\/ load_config \/ _reload_config
       \/ /\ ActiveRules' = ActiveRules
          /\ (thread.pc = "iterate" /\ thread'.pc = "iterate")
                => heap'[thread.list] = heap[thread.list]]_vars

\* C4: a reload call returns with the detector of the video thread holding
\* the flags and the gesture definitions of the document the call carried,
\* so that every cycle starting afterwards uses them.
C4_ReloadApplied ==
    [][(load_config \/ _reload_config)
        => /\ reload'.status = "applied"
           /\ ActiveRules' = [transformations |-> reload'.transformations,
                              gestures |-> reload'.gestures]]_vars

\* C5: a Distance condition on two landmarks of the pose is true exactly
\* when min <= distance <= max, a missing bound being unbounded.
C5_DistanceInclusive ==
    (CallOf("distance") /\ "points" \in DOMAIN call.condition
        /\ Len(call.condition.points) = 2
        /\ \A k \in 1..2 : Valid(evalLandmarks, call.condition.points[k]))
    => LET c == call.condition
           d == _euclidean_distance(evalLandmarks[c.points[1] + 1],
                                    evalLandmarks[c.points[2] + 1])
       IN  call.result = Ret(/\ ("min" \in DOMAIN c => c.min <= d)
                             /\ ("max" \in DOMAIN c => d <= c.max))

\* C6: an Angle condition on three landmarks of the pose is true exactly
\* when min <= angle at the middle landmark <= max, a missing bound being
\* unbounded.
C6_AngleInclusive ==
    (CallOf("angle") /\ "points" \in DOMAIN call.condition
        /\ Len(call.condition.points) = 3
        /\ \A k \in 1..3 : Valid(evalLandmarks, call.condition.points[k]))
    => LET c == call.condition
           a == _calculate_angle_three_points(evalLandmarks[c.points[1] + 1],
                                              evalLandmarks[c.points[2] + 1],
                                              evalLandmarks[c.points[3] + 1])
       IN  call.result = Ret(/\ ("min" \in DOMAIN c => c.min <= a)
                             /\ ("max" \in DOMAIN c => a <= c.max))

PositionPoint == Get(call.condition, "point", 0)

\* C7: a Position condition on a landmark p of the pose is true exactly
\* when each configured bound holds, the bound itself included; bounds that
\* are not configured do not constrain.
C7_PositionInclusive ==
    (CallOf("position") /\ Valid(evalLandmarks, PositionPoint))
    => LET c == call.condition
           p == evalLandmarks[PositionPoint + 1]
       IN  call.result = Ret(/\ ("x_min" \in DOMAIN c => c.x_min <= p.x)
                             /\ ("x_max" \in DOMAIN c => p.x <= c.x_max)
                             /\ ("y_min" \in DOMAIN c => c.y_min <= p.y)
                             /\ ("y_max" \in DOMAIN c => p.y <= c.y_max))

\* a Position condition whose landmark lies exactly on a configured bound
\* has been evaluated and came out true
C7_Witness ==
    /\ CallOf("position") /\ Valid(evalLandmarks, PositionPoint)
    /\ "x_min" \in DOMAIN call.condition /\ "y_max" \in DOMAIN call.condition
    /\ evalLandmarks[PositionPoint + 1].x = call.condition.x_min
    /\ evalLandmarks[PositionPoint + 1].y = call.condition.y_max
    /\ call.result = Ret(TRUE)

\* the landmark indices a condition refers to
IndicesOf(c) ==
    IF Get(c, "type", None) = "position" THEN {Get(c, "point", 0)}
    ELSE {c.points[k] : k \in DOMAIN c.points}

\* C8: a distance, angle or position condition that refers to an index
\* outside 0 .. len-1 (too large or negative) evaluates to false and does
\* not raise.
C8_BadIndexIsFalse ==
    (IsCall("_evaluate_condition")
        /\ Get(call.condition, "type", None) \in {"distance", "angle", "position"}
        /\ \E i \in IndicesOf(call.condition) : ~Valid(evalLandmarks, i))
    => call.result = Ret(FALSE)

\* C9: detect_gesture returns None, without raising, for a pose of fewer
\* than 21 points and whenever no gesture definition has all its conditions
\* true.
C9_NoneWhenNoMatch ==
    (IsCall("detect_gesture")
        /\ (Len(evalLandmarks) < NumLandmarks
             \/ Matching(call.gesture_defs, evalLandmarks) = {}))
    => call.result = RetName(None)

\* C10: a pose of fewer than 21 points comes back from normalize_keypoints
\* as it went in, whatever the flags.
C10_ShortPoseUnchanged ==
    (IsCall("normalize_keypoints") /\ Len(evalLandmarks) < NumLandmarks)
    => call.normalized = evalLandmarks

\* a non-empty short pose away from the origin has been normalized with
\* every flag set
C10_Witness ==
    /\ IsCall("normalize_keypoints")
    /\ Len(evalLandmarks) > MIDDLE_FINGER_BASE /\ Len(evalLandmarks) < NumLandmarks
    /\ evalLandmarks[WRIST + 1] # Pt(0, 0, 0)
    /\ call.transformations.displacement_invariant
    /\ call.transformations.scale_invariant
    /\ call.transformations.rotation_invariant
    /\ call.normalized = evalLandmarks

\* C11: with displacement invariance enabled, landmark 0 of the normalized
\* pose is (0, 0, 0) for every 21-point pose, whatever the scale and rotation
\* flags are.
C11_WristAtOrigin ==
    (IsCall("normalize_keypoints") /\ Len(evalLandmarks) >= NumLandmarks
        /\ call.transformations.displacement_invariant)
    => call.normalized[WRIST + 1] = Pt(0, 0, 0)

\* a 21-point pose with its wrist away from the origin and a hand size above
\* zero has been normalized with every flag set, and its wrist is at the origin
C11_Witness ==
    /\ IsCall("normalize_keypoints") /\ Len(evalLandmarks) >= NumLandmarks
    /\ evalLandmarks[WRIST + 1] # Pt(0, 0, 0)
    /\ evalLandmarks[MIDDLE_FINGER_BASE + 1] # evalLandmarks[WRIST + 1]
    /\ call.transformations.displacement_invariant
    /\ call.transformations.scale_invariant
    /\ call.transformations.rotation_invariant
    /\ call.normalized[WRIST + 1] = Pt(0, 0, 0)
    /\ call.normalized # evalLandmarks

\* the pose whose every coordinate is k times that of the given one
ScalePose(landmarks, k) ==
    [i \in 1..Len(landmarks) |->
        [x |-> k * landmarks[i].x, y |-> k * landmarks[i].y, z |-> k * landmarks[i].z]]

Scalars == {2, 3}

\* the scale reference of a pose: the distance from the wrist to the middle
\* finger base
ScaleReference(landmarks) ==
    _euclidean_distance(landmarks[WRIST + 1], landmarks[MIDDLE_FINGER_BASE + 1])

\* C12 (as stated): with scale invariance enabled, normalizing k times a
\* 21-point pose gives the same result as normalizing the pose, for every
\* positive k.
C12_ScaleInvariant ==
    (IsCall("normalize_keypoints") /\ Len(evalLandmarks) >= NumLandmarks
        /\ call.transformations.scale_invariant)
    => \A k \in Scalars :
          normalize_keypoints(call.transformations, ScalePose(evalLandmarks, k))
              = call.normalized

\* C12 (amended): with scale invariance enabled, normalizing k times a
\* 21-point pose whose scale reference is not zero gives the same result as
\* normalizing the pose, for every positive k.
C12_ScaleInvariantNonDegenerate ==
    (IsCall("normalize_keypoints") /\ Len(evalLandmarks) >= NumLandmarks
        /\ call.transformations.scale_invariant
        /\ ScaleReference(evalLandmarks) > 0)
    => \A k \in Scalars :
          normalize_keypoints(call.transformations, ScalePose(evalLandmarks, k))
              = call.normalized

\* a pose with a scale reference above zero has been normalized with scale
\* invariance (and nothing else) enabled, which changed it, and twice the
\* pose normalizes to the same result
C12_Witness ==
    /\ IsCall("normalize_keypoints") /\ Len(evalLandmarks) >= NumLandmarks
    /\ call.transformations.scale_invariant
    /\ ~call.transformations.displacement_invariant
    /\ ~call.transformations.rotation_invariant
    /\ ScaleReference(evalLandmarks) > 0
    /\ call.normalized # evalLandmarks
    /\ ScalePose(evalLandmarks, 2) # evalLandmarks
    /\ normalize_keypoints(call.transformations, ScalePose(evalLandmarks, 2))
           = call.normalized

\* the angle pi/2: the direction of the y axis
HalfPi == [cos |-> 0, sin |-> Unit]

\* C13: with rotation invariance enabled, the bearing from landmark 0 to
\* landmark 8 of the normalized pose is pi/2 for every 21-point pose.
C13_IndexBearingVertical ==
    (IsCall("normalize_keypoints") /\ Len(evalLandmarks) >= NumLandmarks
        /\ call.transformations.rotation_invariant)
    => _calculate_angle(call.normalized[WRIST + 1], call.normalized[INDEX_TIP + 1]) = HalfPi

\* the gesture names of a list are pairwise different
UniqueNames(gestures) ==
    \A i, j \in DOMAIN gestures : i # j => gestures[i].name # gestures[j].name

\* C14: whatever configuration-layer operations were made, no two gesture
\* definitions of the configuration, or of the rule set the engine holds,
\* have the same name.
C14_UniqueNames ==
    /\ UniqueNames(heap[config.gestures])
    /\ UniqueNames(ActiveRules.gestures)

\* every gesture of the list passes ConfigManager's own validation
WellFormed(gestures) ==
    \A k \in DOMAIN gestures : _validate_gesture(gestures[k])

\* C15: an invalid configuration document is rejected before it reaches the
\* engine: the rule set of the engine never holds an ill-formed gesture
\* definition, and the configuration that load_config leaves holds none.
C15_InvalidDocumentRejected ==
    /\ WellFormed(ActiveRules.gestures)
    /\ returned.op = "load_config" => WellFormed(heap[config.gestures])
\* C16: for every gesture name, any two successful executions of its
\* command by execute_command are at least Cooldown apart, over any sequence
\* of execute_command and update_mappings calls: a successful execution
\* comes no sooner than Cooldown after the previous successful one of the
\* same gesture.
C16_CooldownBetweenExecutions ==
    (/\ execution.op = "execute_command"
     /\ execution.result
     /\ execution.previous # Never)
    => execution.time - execution.previous >= Cooldown

\* C17: the analogue value dispatched with a detected gesture is computed
\* from the canonical pose of the frame on which that gesture was matched.
C17_AnalogueFromMatchedPose ==
    dispatched.op = "execute_command"
    => dispatched.analogue_value =
           get_analogue_value(dispatched.matched_on, dispatched.gesture_name)

\* C18: get_analogue_value returns 1 - landmark[4].y when the gesture name
\* is thumbs_up and the pose has a thumb-tip landmark, none for every other
\* gesture name, and a returned value lies in the range 0 to 1 that the
\* analogue commands expect.
C18_AnalogueValueInRange ==
    dispatched.op = "execute_command"
    => /\ dispatched.analogue_value =
              IF /\ dispatched.gesture_name = "thumbs_up"
                 /\ Len(dispatched.landmarks) > THUMB_TIP
              THEN Value(Unit - dispatched.landmarks[THUMB_TIP + 1].y)
              ELSE NoValue
       /\ dispatched.analogue_value # NoValue
              => dispatched.analogue_value[1] \in 0..Unit

\* the flags a gesture is to be normalised with: its own overrides, or the
\* global flags when it has none
FlagsFor(gesture, transformations) ==
    Get(gesture, "normalization_overrides", transformations)

RECURSIVE MatchedWithOverrides(_, _, _, _)
\* the first gesture from the k-th on whose conditions hold on the pose
\* normalised with the flags meant for that gesture
MatchedWithOverrides(gesture_defs, transformations, landmarks, k) ==
    IF k > Len(gesture_defs) THEN None
    ELSE LET gesture == gesture_defs[k]
             r == _check_gesture_conditions(
                      normalize_keypoints(FlagsFor(gesture, transformations), landmarks),
                      gesture)
         IN  IF ~r.raised /\ r.value THEN gesture.name
             ELSE MatchedWithOverrides(gesture_defs, transformations, landmarks, k + 1)

\* C19: the global transformation flags act only as defaults: a gesture
\* saved with normalization_overrides is matched against the pose normalised
\* with its override flags, and only gestures without overrides against the
\* pose normalised with the global flags.
C19_OverridesApplied ==
    (IsCall("run") /\ ~call.result.raised /\ Len(evalLandmarks) >= NumLandmarks)
    => call.result.name =
           MatchedWithOverrides(call.gesture_defs, call.transformations, evalLandmarks, 1)

\* C20: reset_to_default sets the configuration to the built-in default
\* values (the default flags, exactly the gestures pinch and thumbs_up and
\* exactly their two mappings), whatever add_gesture, update_gesture,
\* add_mapping or remove_gesture calls preceded it.
C20_ResetRestoresDefaults ==
    returned.op = "reset_to_default"
    => [transformations |-> config.transformations,
        gestures |-> heap[config.gestures],
        mappings |-> dicts[config.mappings]] = _get_default_config

\* a gesture whose single condition is Distance{[4,8], max: m}
IsPinchRule(gesture) ==
    /\ Len(gesture.conditions) = 1
    /\ DOMAIN gesture.conditions[1] = {"type", "points", "max"}
    /\ gesture.conditions[1].type = "distance"
    /\ gesture.conditions[1].points = <<THUMB_TIP, INDEX_TIP>>

\* C21: for a 21-landmark pose normalize_keypoints returns exactly 21
\* landmarks, and detection on the normalised pose returns the gesture whose
\* single condition is Distance{[4,8], max: m} whenever landmarks 4 and 8 of
\* that pose are closer than m; this includes the pinch pose whose other
\* landmarks all lie on the wrist (scale reference 0) under displacement
\* and scale invariance.
C21_PinchDetected ==
    (IsCall("run") /\ Len(evalLandmarks) = NumLandmarks)
    => /\ Len(call.normalized) = NumLandmarks
       /\ (/\ Len(call.gesture_defs) = 1
           /\ IsPinchRule(call.gesture_defs[1])
           /\ _euclidean_distance(call.normalized[THUMB_TIP + 1],
                                  call.normalized[INDEX_TIP + 1])
                  < call.gesture_defs[1].conditions[1].max)
          => call.result = RetName(call.gesture_defs[1].name)

C21_Witness ==
    /\ IsCall("run")
    /\ evalLandmarks = HandTestPinch
    /\ call.transformations = DefaultTransformations
    /\ call.gesture_defs = <<DefaultGestures[1]>>
    /\ call.result = RetName("pinch")

\* C23: normalisation applies centering, then scaling, then rotation, each
\* enabled step on the output of the previous enabled step: the scale
\* reference and the rotation reference are taken from the points as the
\* steps before have left them, never from the raw pose.
C23_StepsInOrder ==
    (IsCall("normalize_keypoints") /\ Len(evalLandmarks) >= NumLandmarks)
    => LET flags == call.transformations
           centered == IF flags.displacement_invariant
                       THEN Centered(evalLandmarks) ELSE evalLandmarks
           scaled == IF flags.scale_invariant THEN Scaled(centered) ELSE centered
           rotated == IF flags.rotation_invariant THEN Rotated(scaled) ELSE scaled
       IN  call.normalized = rotated

\* all three steps ran on a hand of non-zero size, and the result is neither
\* the rotated raw pose nor the rotated centred pose
C23_Witness ==
    /\ IsCall("normalize_keypoints")
    /\ evalLandmarks = HandPinch
    /\ call.transformations = [displacement_invariant |-> TRUE, scale_invariant |-> TRUE,
                               rotation_invariant |-> TRUE]
    /\ call.normalized # Rotated(evalLandmarks)
    /\ call.normalized # Rotated(Centered(evalLandmarks))
    /\ call.normalized = Rotated(Scaled(Centered(evalLandmarks)))

\* C24: with scale invariance enabled and a scale reference of 0 the
\* scaling step is skipped: every point is left as the previous step
\* produced it, so the result is that of the same call with scale
\* invariance disabled.
C24_ZeroScaleSkipped ==
    (/\ IsCall("normalize_keypoints")
     /\ Len(evalLandmarks) >= NumLandmarks
     /\ call.transformations.scale_invariant
     /\ ScaleReference(evalLandmarks) = 0)
    => call.normalized =
           normalize_keypoints([call.transformations EXCEPT !.scale_invariant = FALSE],
                               evalLandmarks)

\* a hand of size 0 away from the origin was normalised with scale
\* invariance alone and came back as it was
C24_Witness ==
    /\ IsCall("normalize_keypoints")
    /\ evalLandmarks = HandCorner
    /\ ScaleReference(evalLandmarks) = 0
    /\ call.transformations = [displacement_invariant |-> FALSE, scale_invariant |-> TRUE,
                               rotation_invariant |-> FALSE]
    /\ call.normalized = evalLandmarks

\* the arm from the vertex to p has no length in the plane of the image
ZeroArm(p, vertex) == p.x = vertex.x /\ p.y = vertex.y

\* C25: the angle at the vertex is 0 whenever either arm (p1 - vertex or
\* p3 - vertex) has zero magnitude, and otherwise a value in 0..180 degrees;
\* the computation never raises.
C25_AngleAtVertex ==
    (/\ CallOf("angle")
     /\ Len(Get(call.condition, "points", <<>>)) = 3
     /\ \A k \in 1..3 : Valid(evalLandmarks, call.condition.points[k]))
    => LET p1 == evalLandmarks[call.condition.points[1] + 1]
           vertex == evalLandmarks[call.condition.points[2] + 1]
           p3 == evalLandmarks[call.condition.points[3] + 1]
           angle == _calculate_angle_three_points(p1, vertex, p3)
       IN  /\ ~call.result.raised
           /\ angle \in 0..180
           /\ (ZeroArm(p1, vertex) \/ ZeroArm(p3, vertex)) => angle = 0

\* the angle at the thumb tip of a hand whose thumb tip lies on the wrist
C25_Witness ==
    /\ CallOf("angle")
    /\ evalLandmarks = HandPinch
    /\ call.condition.points = <<WRIST, THUMB_TIP, INDEX_TIP>>
    /\ ZeroArm(evalLandmarks[WRIST + 1], evalLandmarks[THUMB_TIP + 1])
    /\ ~ZeroArm(evalLandmarks[INDEX_TIP + 1], evalLandmarks[THUMB_TIP + 1])
    /\ _calculate_angle_three_points(evalLandmarks[WRIST + 1], evalLandmarks[THUMB_TIP + 1],
                                     evalLandmarks[INDEX_TIP + 1]) = 0
    /\ ~call.result.raised

\* C26: every gesture name returned by detect_gesture belongs to a
\* definition with a non-empty condition list all of whose conditions
\* evaluated true on the pose; a definition with no conditions is never
\* reported as detected.
C26_NonEmptyConditionsMatched ==
    (IsCall("detect_gesture") /\ ~call.result.raised /\ call.result.name # None)
    => \E k \in 1..Len(call.gesture_defs) :
           /\ call.gesture_defs[k].name = call.result.name
           /\ call.gesture_defs[k].conditions # <<>>
           /\ \A c \in 1..Len(call.gesture_defs[k].conditions) :
                  _evaluate_condition(evalLandmarks, call.gesture_defs[k].conditions[c])
                      = Ret(TRUE)

\* C28: if add_gesture or update_gesture returns False (invalid
\* definition, duplicate name, unknown gesture or failure to persist), the
\* in-memory configuration is exactly what it was before the call.
C28_FailedEditLeavesConfig ==
    [][(/\ edits' # edits
        /\ returned'.op \in {"add_gesture", "update_gesture"}
        /\ returned'.value = FALSE)
       => /\ config'.transformations = config.transformations
          /\ heap'[config'.gestures] = heap[config.gestures]
          /\ dicts'[config'.mappings] = dicts[config.mappings]]_vars

\* the event loop delivers the gesture signal of one cycle in this step
HandlingGesture ==
    /\ events # <<>>
    /\ events' = Tail(events)
    /\ Head(events).signal = "gesture_detected"

\* C22: execute_command is invoked for a cycle only if a gesture was
\* matched in that cycle and gesture commands are enabled; a cycle with no
\* match, and any cycle handled while commands are disabled, produces no
\* dispatch, and nothing else touches the executor.
C22_DispatchOnlyWhenMatchedAndEnabled ==
    [][/\ HandlingGesture =>
           /\ dispatched'.op = "execute_command"
                  <=> (window.commands_enabled /\ Head(events).gesture_name # "")
           /\ dispatched'.op = "execute_command" =>
                  /\ dispatched'.gesture_name = Head(events).gesture_name
                  /\ detect_gesture(heap[gesture_detector.gesture_defs],
                                    Head(events).matched_on)
                         = RetName(Head(events).gesture_name)
                  /\ execution'.op = "execute_command"
           /\ dispatched'.op # "execute_command" =>
                  UNCHANGED <<command_executor, execution, executed>>
       /\ ~HandlingGesture => UNCHANGED <<command_executor, execution, executed>>]_vars

\* a matched gesture was dispatched while commands were enabled
C22_Witness ==
    /\ dispatched.op = "execute_command"
    /\ dispatched.gesture_name = "thumbs_up"
    /\ execution.op = "execute_command"
    /\ window.commands_enabled

\* (a step that ends with a recorded call while the clock stands is a call
\* of execute_command)
\* C27: execute_command records a last-execution time only for the gesture
\* whose command just ran successfully: a call that returns False leaves
\* last_execution unchanged, and a successful call changes the entry of its
\* own gesture only, so executing one gesture never puts another one into
\* cooldown.
C27_LastExecutionFrame ==
    [][(execution'.op = "execute_command" /\ now' = now)
       => LET before == command_executor.last_execution
              after == command_executor'.last_execution
              gesture_name == execution'.gesture_name
          IN  IF execution'.result
              THEN /\ DOMAIN after = DOMAIN before \cup {gesture_name}
                   /\ after[gesture_name] = now
                   /\ \A other \in DOMAIN before \ {gesture_name} :
                          after[other] = before[other]
              ELSE after = before]_vars

\* pinch was executed successfully while thumbs_up was in cooldown, and the
\* entry of thumbs_up is still the older one
C27_Witness ==
    /\ execution.op = "execute_command"
    /\ execution.gesture_name = "pinch"
    /\ execution.result
    /\ DOMAIN command_executor.last_execution = {"pinch", "thumbs_up"}
    /\ command_executor.last_execution["pinch"] = now
    /\ command_executor.last_execution["thumbs_up"] < now

C30_StopEndsTheLoop ==
    /\ (window.stop = "waiting") ~> (video_thread.pc = "finished")
    /\ (window.stop = "waiting") ~> (window.stop = "returned")
    /\ [](window.stop = "returned" => video_thread.pc = "finished")
    /\ [][window.stop = "returned"
             => (video_thread' = video_thread /\ Len(events') <= Len(events))]_vars

\* stop() has returned after a call that came in the middle of a cycle,
\* whose two signals are still queued
C30_Witness ==
    /\ window.stop = "returned"
    /\ video_thread.pc = "finished"
    /\ video_thread.gesture_name = "thumbs_up"
    /\ Len(events) = 2

====
